---- MODULE Spec2Model ----
(***************************************************************************)
(* Model of demo/png_2d_planning.cpp: the obstacle filter (raster ->       *)
(* boolean grid, with the optional black/white recolouring of the raster)  *)
(* and the emission of the SVG overlay (header, background image, solution *)
(* path, capped visited edges, footer).                                    *)
(***************************************************************************)
EXTENDS Integers, Sequences, FiniteSets, TLC

VARIABLES
    \* ---- filter(rowPointers, filters, width, height) ----
    width,          \* int width
    height,         \* int height
    rowBytes,       \* bytes really allocated per row (png_get_rowbytes)
    rows,           \* rowPointers: rows[y+1][i+1] is byte i of row y
    orig,           \* the raster as it was when filter was called
    filters,        \* std::vector<PNGColor> filters
    printFiltered,  \* PRINT_FILTERED_IMAGE of the build
    obstacle,       \* std::vector<bool> obstacle(width * height)
    fx, fy,         \* the loop indices x and y
    fpc,            \* "loop" | "returned" | "crashed"
    oob,            \* an access outside a row's bytes has happened
    \* ---- the scan split by rows over workers ----
    owner,          \* owner[y+1]: the worker that scans row y
    wk,             \* wk[w]: worker w's x, y, position, flag and loaded word
    touched,        \* the <<worker, row>> pairs of the pixel accesses made
    overlapped,     \* a grid word was loaded while another worker held it
    \* ---- main's SVG output ----
    mpc,            \* main's position
    solution,       \* std::vector<State> solution
    it,             \* the iterator of the solution loop, as an index from 0
    doc,            \* what has been written to file, element by element
    wstate,         \* the writer's state
    rejected,       \* the last write was refused by the writer
    lastOp,         \* the last operation called on the writer
    ncalls,         \* calls made on the writer
    count,          \* static int count of Visitor::edge
    from_,          \* Visitor::from_
    graphEdges,     \* edges the planner's graph traversal will deliver
    perVertex,      \* edges out of each vertex of the planner's graph
    nVertices,      \* vertex() calls made by the running traversal
    nDelivered,     \* edge() calls made by the running traversal
    delivered,      \* the edges (from_, to) passed to edge() by the running
                    \* traversal, each as the segment it stands for
    invocation      \* visitGraph calls started

filterVars == <<width, height, rowBytes, rows, orig, filters, printFiltered,
                obstacle, fx, fy, fpc, oob>>

workerVars == <<owner, wk, touched, overlapped>>

docVars == <<mpc, solution, it, doc, wstate, rejected, lastOp, ncalls, count,
             from_, graphEdges, perVertex, nVertices, nDelivered, delivered,
             invocation>>

vars == <<filterVars, workerVars, docVars>>

\* ------------------------------------------------------------------ bounds
\* rasters of at most MaxPixels pixels are enumerated
MaxPixels == 4
\* the split scan: rasters of at most MaxWorkerPixels pixels, NumWorkers workers
MaxWorkerPixels == 4
NumWorkers == 2
\* the output: solutions of at most MaxPath points; graphs of at most
\* SmallGraph edges with at most MaxPerVertex edges out of a vertex, and
\* graphs of MaxEdges edges; at most MaxInvocations traversals; at most
\* MaxCalls calls on the writer
MaxPath == 3
SmallGraph == 2
MaxPerVertex == 2
MaxEdges == 10050
MaxInvocations == 3
MaxCalls == 4

\* ------------------------------------------------------- program constants
tolerance == 15
WhiteThreshold == 250
EDGE_CAP == 10000

Abs(n) == IF n < 0 THEN 0 - n ELSE n

\* ---------------------------------------------------------------- inputs
White == <<255, 255, 255>>
Black == <<0, 0, 0>>
\* pixels at the edges of the rules: white; one channel at the threshold;
\* the first matcher's colour at distance 15 on every channel; the second
\* matcher's at distance 15; the second matcher's at distance 16 on red
PixelSamples ==
    { White, <<251, 251, 250>>, <<141, 91, 76>>, <<76, 38, 21>>, <<77, 53, 6>> }
\* the values an 8-bit grey row holds, and a read outside a row may return
GraySamples == {0, 255}

\* the matcher lists: none, and main's two colours
FilterLists == { <<>>, << <<126, 106, 61>>, <<61, 53, 6>> >> }

Dims == { d \in (1..MaxPixels) \X (1..MaxPixels) : d[1] * d[2] <= MaxPixels }

\* a row of w RGB pixels as 3*w bytes
RowOfPixels(ps) == [i \in 1..(3 * Len(ps)) |-> ps[((i - 1) \div 3) + 1][((i - 1) % 3) + 1]]
RgbRows(w) == { RowOfPixels(ps) : ps \in [1..w -> PixelSamples] }
GrayRows(w) == [1..w -> GraySamples]

\* the 4x4 scenario raster: all white but pixel (2,2), which is black
ScenarioRaster ==
    [y \in 1..4 |-> RowOfPixels([x \in 1..4 |-> IF x = 3 /\ y = 3 THEN Black ELSE White])]

\* ----------------------------------------------------------- PNGColor
\* PNGColor::isObstacle(r, g, b, tolerance)
isObstacle(c, r, g, b, tol) ==
    /\ Abs(r - c[1]) <= tol
    /\ Abs(g - c[2]) <= tol
    /\ Abs(b - c[3]) <= tol

\* ------------------------------------------------------------- filter
IsWhiteGE(px) == px[1] >= WhiteThreshold /\ px[2] >= WhiteThreshold /\ px[3] >= WhiteThreshold
\* px[0] > 250 && px[1] > 250 && px[2] > 250
IsWhite(px) == px[1] > WhiteThreshold /\ px[2] > WhiteThreshold /\ px[3] > WhiteThreshold

\* for(auto const &c : filters) if(c.isObstacle(...)) { isObstacle = true; break; }
RECURSIVE FilterLoop(_, _, _, _)
FilterLoop(px, fl, i, flag) ==
    IF i > Len(fl) THEN flag
    ELSE IF isObstacle(fl[i], px[1], px[2], px[3], tolerance) THEN TRUE
    ELSE FilterLoop(px, fl, i + 1, flag)

ClassifyNoWhite(px, fl) == FilterLoop(px, fl, 1, FALSE)
\* bool isObstacle = false; the whiteness test; the matcher loop
ClassifyPixel(px, fl) == FilterLoop(px, fl, 1, IsWhite(px))

ObstacleIndexT(w, x, y) == w * x + y
\* obstacle[width * y + x]
ObstacleIndex(w, x, y) == w * y + x

\* whether byte i (0-based) lies outside a row of n bytes
OutOfRow(i, n) == i >= n
\* px = &(row[x * 3]) reaches outside the row
PixelOutOfRow(x, n) == OutOfRow(x * 3 + 2, n)

\* the values a read of px[0..2] at row[x*3] can give: the row's byte, or,
\* outside the row, whatever the memory there holds
ReadPixel(row, x) ==
    LET any == GraySamples \cup {row[i] : i \in DOMAIN row} IN
    { p \in any \X any \X any :
        \A c \in 0..2 :
            ~OutOfRow(x * 3 + c, Len(row)) => p[c + 1] = row[x * 3 + c + 1] }

RecolorNext(row, x, flag) ==
    [i \in DOMAIN row |->
        IF i - 1 \in (x * 3 + 3)..(x * 3 + 5) THEN (IF flag THEN 0 ELSE 255) ELSE row[i]]
\* px[0] = px[1] = px[2] = isObstacle ? 0 : 255 (the bytes that lie in the row)
Recolor(row, x, flag) ==
    [i \in DOMAIN row |->
        IF i - 1 \in (x * 3)..(x * 3 + 2) THEN (IF flag THEN 0 ELSE 255) ELSE row[i]]

\* no split scan is running
WorkersIdle ==
    /\ owner = <<>>
    /\ wk = <<>>
    /\ touched = {}
    /\ overlapped = FALSE

\* main has not reached its output
DocIdle ==
    /\ mpc = "idle"
    /\ solution = <<>>
    /\ it = 0
    /\ doc = <<>>
    /\ wstate = "Unopened"
    /\ rejected = FALSE
    /\ lastOp = "none"
    /\ ncalls = 0
    /\ count = 0
    /\ from_ = <<>>
    /\ graphEdges = 0
    /\ perVertex = 1
    /\ nVertices = 0
    /\ nDelivered = 0
    /\ delivered = <<>>
    /\ invocation = 0

FilterInit ==
    /\ \/ \E d \in Dims :
            /\ width = d[1]
            /\ height = d[2]
            /\ \/ rowBytes = 3 * d[1] /\ rows \in [1..d[2] -> RgbRows(d[1])]
               \* a grey PNG, which main does not expand to RGB
               \/ rowBytes = d[1] /\ rows \in [1..d[2] -> GrayRows(d[1])]
            /\ filters \in FilterLists
       \/ /\ width = 4
          /\ height = 4
          /\ rowBytes = 12
          /\ rows = ScenarioRaster
          /\ filters = <<>>
    /\ orig = rows
    /\ printFiltered \in BOOLEAN
    /\ obstacle = [i \in 1..(width * height) |-> FALSE]
    /\ fx = 0
    /\ fy = 0
    /\ fpc = "loop"
    /\ oob = FALSE
    /\ WorkersIdle
    /\ DocIdle

\* one iteration of the loop body, lines 246-269
FilterPixel ==
    /\ fpc = "loop"
    /\ fy < height
    /\ \E px \in ReadPixel(rows[fy + 1], fx) :
         LET flag == ClassifyPixel(px, filters) IN
           /\ obstacle' = [obstacle EXCEPT ![ObstacleIndex(width, fx, fy) + 1] = flag]
           /\ rows' = IF printFiltered
                        THEN [rows EXCEPT ![fy + 1] = Recolor(@, fx, flag)]
                        ELSE rows
    /\ oob' = (oob \/ PixelOutOfRow(fx, Len(rows[fy + 1])))
    /\ IF fx + 1 < width
         THEN fx' = fx + 1 /\ fy' = fy
         ELSE fx' = 0 /\ fy' = fy + 1
    /\ UNCHANGED <<width, height, rowBytes, orig, filters, printFiltered, fpc>>
    /\ UNCHANGED <<workerVars, docVars>>

\* an access outside the row can also end the process
FilterFault ==
    /\ fpc = "loop"
    /\ fy < height
    /\ PixelOutOfRow(fx, Len(rows[fy + 1]))
    /\ fpc' = "crashed"
    /\ oob' = TRUE
    /\ UNCHANGED <<width, height, rowBytes, rows, orig, filters, printFiltered,
                   obstacle, fx, fy>>
    /\ UNCHANGED <<workerVars, docVars>>

\* y == height: return obstacle
FilterReturn ==
    /\ fpc = "loop"
    /\ fy >= height
    /\ fpc' = "returned"
    /\ UNCHANGED <<width, height, rowBytes, rows, orig, filters, printFiltered,
                   obstacle, fx, fy, oob>>
    /\ UNCHANGED <<workerVars, docVars>>

\* ------------------------------------------------------ filter: claims
\* the raster has 3 bytes for each of the width pixels of a row
WellFormed == rowBytes = 3 * width /\ Len(rows) = height

\* pixel (x, y) of the raster as filter received it
OrigPixel(x, y) == <<orig[y + 1][3 * x + 1], orig[y + 1][3 * x + 2], orig[y + 1][3 * x + 3]>>
\* pixel (x, y) of the raster as it is now
CurPixel(x, y) == <<rows[y + 1][3 * x + 1], rows[y + 1][3 * x + 2], rows[y + 1][3 * x + 3]>>

\* the rule as the specification words it
Matches(m, p) == \A c \in 1..3 : Abs(p[c] - m[c]) <= 15
ObstacleRule(p, fl) ==
    \/ \A c \in 1..3 : p[c] > 250
    \/ \E i \in DOMAIN fl : Matches(fl[i], p)

\* C1: for a raster of width W and height H and any matcher list, the grid
\* filter returns has exactly W*H entries, and the entry at y*W + x is true
\* iff pixel (x, y) has all channels above 250 or some matcher matches it
\* within 15 on every channel.
C1_GridIsRule ==
    (fpc = "returned" /\ WellFormed) =>
        /\ Len(obstacle) = width * height
        /\ \A x \in 0..(width - 1), y \in 0..(height - 1) :
             obstacle[y * width + x + 1] = ObstacleRule(OrigPixel(x, y), filters)

\* a returned 2x2 grid, no matchers, with a white pixel classified an
\* obstacle and a pixel with one channel at 250 classified free
C1_Witness ==
    /\ fpc = "returned" /\ WellFormed /\ filters = <<>>
    /\ width = 2 /\ height = 2
    /\ OrigPixel(1, 1) = White /\ obstacle[4]
    /\ OrigPixel(0, 1) = <<251, 251, 250>> /\ ~obstacle[3]

\* the grid of a scan that does not touch the raster
NoRecolorGrid ==
    [i \in 1..(width * height) |->
        ClassifyPixel(OrigPixel((i - 1) % width, (i - 1) \div width), filters)]

\* C5: with recolouring enabled, after the call every pixel whose grid
\* entry is true is (0,0,0), every other pixel is (255,255,255), and the
\* grid is the one a scan of the original raster without recolouring gives.
C5_RecolorKeepsGrid ==
    (fpc = "returned" /\ WellFormed /\ printFiltered) =>
        /\ \A x \in 0..(width - 1), y \in 0..(height - 1) :
             CurPixel(x, y) = IF obstacle[y * width + x + 1] THEN Black ELSE White
        /\ obstacle = NoRecolorGrid

\* a recoloured 2x2 raster in which a free pixel became white and a white
\* pixel became black
C5_Witness ==
    /\ fpc = "returned" /\ WellFormed /\ printFiltered
    /\ width = 2 /\ height = 2
    /\ OrigPixel(0, 0) = <<77, 53, 6>> /\ CurPixel(0, 0) = White
    /\ OrigPixel(1, 0) = White /\ CurPixel(1, 0) = Black

\* C8: given a width that does not match the rows' bytes, filter stops on a
\* check before it reads outside the buffer and returns no grid.
C8_FailsFastOnMismatch ==
    (rowBytes # 3 * width) => (~oob /\ fpc # "returned")

\* the 4x4 scenario: all white but pixel (2,2), no matchers
Scenario ==
    /\ width = 4 /\ height = 4 /\ orig = ScenarioRaster /\ filters = <<>>

\* C9 as stated: in the 4x4 scenario the grid is true only at index 10.
C9_TrueOnlyAt10 ==
    (Scenario /\ fpc = "returned") =>
        \A i \in 0..15 : obstacle[i + 1] = (i = 10)

\* C9 amended: in the 4x4 scenario the grid is false only at index 10 (the
\* black pixel) and true at the 15 white pixels.
C9_FalseOnlyAt10 ==
    (Scenario /\ fpc = "returned") =>
        /\ Len(obstacle) = 16
        /\ \A i \in 0..15 : obstacle[i + 1] = (i # 10)

C9_Witness == Scenario /\ fpc = "returned" /\ ~obstacle[11] /\ obstacle[1]

FilterNext == FilterPixel \/ FilterFault \/ FilterReturn

Spec == FilterInit /\ [][FilterNext]_vars
\* ------------------------------------------- the scan split over workers
\* The loop body of filter run by NumWorkers workers, each on the rows it
\* owns.  obstacle is a std::vector<bool>: its entries are bits of storage
\* words, and obstacle[i] = v is a load of the word holding bit i followed
\* by a store of the word with that bit changed.
WordBits == 64

Workers == 1..NumWorkers

\* the grid indices (1-based) stored in the same word as index i (0-based)
WordOf(i) == i \div WordBits
WordIndices(i) == { j \in DOMAIN obstacle : WordOf(j - 1) = WordOf(i) }

\* the first row at or after y that worker w owns; height when it owns none
RECURSIVE NextOwnRow(_, _)
NextOwnRow(w, y) ==
    IF y >= height THEN height
    ELSE IF owner[y + 1] = w THEN y
    ELSE NextOwnRow(w, y + 1)

\* rows are dealt in contiguous ranges
Partitions(h) ==
    { o \in [1..h -> Workers] : \A y \in 1..(h - 1) : o[y] <= o[y + 1] }

WorkerPixelSamples == { White, <<77, 53, 6>> }
WorkerDims ==
    { d \in (1..MaxWorkerPixels) \X (2..MaxWorkerPixels) : d[1] * d[2] <= MaxWorkerPixels }

WorkersInit ==
    /\ \E d \in WorkerDims :
         /\ width = d[1]
         /\ height = d[2]
         /\ rowBytes = 3 * d[1]
         /\ rows \in [1..d[2] -> { RowOfPixels(ps) : ps \in [1..d[1] -> WorkerPixelSamples] }]
    /\ orig = rows
    /\ filters \in FilterLists
    /\ printFiltered = TRUE
    /\ obstacle = [i \in 1..(width * height) |-> FALSE]
    /\ fx = 0
    /\ fy = 0
    /\ fpc = "loop"
    /\ oob = FALSE
    /\ owner \in Partitions(height)
    /\ wk = [w \in Workers |->
               [x |-> 0, y |-> NextOwnRow(w, 0),
                pc |-> IF NextOwnRow(w, 0) < height THEN "classify" ELSE "done",
                flag |-> FALSE, word |-> <<>>]]
    /\ touched = {}
    /\ overlapped = FALSE
    /\ DocIdle

\* lines 246-261 and the load half of line 262: read the pixel, classify
\* it, load the grid word that holds its bit
WorkerClassify(w) ==
    /\ wk[w].pc = "classify"
    /\ LET x == wk[w].x
           y == wk[w].y
           i == ObstacleIndex(width, x, y)
       IN /\ \E px \in ReadPixel(rows[y + 1], x) :
                wk' = [wk EXCEPT ![w].flag = ClassifyPixel(px, filters),
                                 ![w].word = [j \in WordIndices(i) |-> obstacle[j]],
                                 ![w].pc = "store"]
          /\ touched' = touched \cup {<<w, y>>}
          /\ overlapped' =
               (overlapped \/ \E v \in Workers \ {w} :
                    /\ wk[v].pc = "store"
                    /\ WordOf(ObstacleIndex(width, wk[v].x, wk[v].y)) = WordOf(i))
    /\ UNCHANGED <<filterVars, owner, docVars>>

\* the store half of line 262, then lines 264-269, then x++ / y++
WorkerStore(w) ==
    /\ wk[w].pc = "store"
    /\ LET x == wk[w].x
           y == wk[w].y
           i == ObstacleIndex(width, x, y)
           nx == IF x + 1 < width THEN x + 1 ELSE 0
           ny == IF x + 1 < width THEN y ELSE NextOwnRow(w, y + 1)
       IN /\ obstacle' = [j \in DOMAIN obstacle |->
                            IF j = i + 1 THEN wk[w].flag
                            ELSE IF j \in DOMAIN wk[w].word THEN wk[w].word[j]
                            ELSE obstacle[j]]
          /\ rows' = IF printFiltered
                       THEN [rows EXCEPT ![y + 1] = Recolor(@, x, wk[w].flag)]
                       ELSE rows
          /\ touched' = touched \cup {<<w, y>>}
          /\ wk' = [wk EXCEPT ![w].x = nx, ![w].y = ny,
                              ![w].pc = IF ny < height THEN "classify" ELSE "done"]
    /\ UNCHANGED <<width, height, rowBytes, orig, filters, printFiltered,
                   fx, fy, fpc, oob, owner, overlapped, docVars>>

WorkersNext == \E w \in Workers : WorkerClassify(w) \/ WorkerStore(w)

SpecWorkers == WorkersInit /\ [][WorkersNext]_vars

\* ------------------------------------------------- split scan: claims
AllDone == wk # <<>> /\ \A w \in Workers : wk[w].pc = "done"

\* the grid and the raster the sequential scan ends with (C1, C5)
SequentialGrid ==
    [i \in 1..(width * height) |->
        ObstacleRule(OrigPixel((i - 1) % width, (i - 1) \div width), filters)]
SequentialRaster ==
    [y \in 1..height |->
        RowOfPixels([x \in 1..width |->
            IF SequentialGrid[(y - 1) * width + x] THEN Black ELSE White])]

startSvg(w, h) == <<"svg", w, h>>
addImage(name) == <<"image", name>>
addSolutionEdge(x1, y1, x2, y2) == <<"solution", x1, y1, x2, y2>>
addVisitedEdge(x1, y1, x2, y2) == <<"visited", x1, y1, x2, y2>>
endSvg == <<"endsvg">>

Open == {"HeaderWritten", "BackgroundWritten", "PathWritten", "EdgesWritten"}

AcceptsUnsealed(op, st) ==
    CASE op = "open" -> st = "Unopened"
      [] op = "background" -> st = "HeaderWritten"
      [] op = "path" -> st \in {"HeaderWritten", "BackgroundWritten", "PathWritten"}
      [] op = "edge" -> st \in Open \cup {"Closed"}
      [] op = "close" -> st \in Open
\* the writer's order: Unopened -> HeaderWritten -> (BackgroundWritten)? ->
\* (PathWritten)? -> (EdgesWritten)* -> Closed
Accepts(op, st) ==
    CASE op = "open" -> st = "Unopened"
      [] op = "background" -> st = "HeaderWritten"
      [] op = "path" -> st \in {"HeaderWritten", "BackgroundWritten", "PathWritten"}
      [] op = "edge" -> st \in Open
      [] op = "close" -> st \in Open

After(op) ==
    CASE op = "open" -> "HeaderWritten"
      [] op = "background" -> "BackgroundWritten"
      [] op = "path" -> "PathWritten"
      [] op = "edge" -> "EdgesWritten"
      [] op = "close" -> "Closed"

\* the stream and the writer's state as one value
TheWriter ==
    [doc |-> doc, st |-> wstate, rejected |-> rejected, lastOp |-> lastOp, ncalls |-> ncalls]
SetWriter(w) ==
    /\ doc' = w.doc
    /\ wstate' = w.st
    /\ rejected' = w.rejected
    /\ lastOp' = w.lastOp
    /\ ncalls' = w.ncalls

\* one call on the writer: the element is appended, or the call is refused
\* and nothing is written
WriterCall(w, op, elem) ==
    IF Accepts(op, w.st)
      THEN [doc |-> Append(w.doc, elem), st |-> After(op), rejected |-> FALSE,
            lastOp |-> op, ncalls |-> w.ncalls + 1]
      ELSE [w EXCEPT !.rejected = TRUE, !.lastOp = op, !.ncalls = @ + 1]

\* ---- Visitor
\* what vertex() and edge() read and write: the stream out_, from_, and the
\* static count
TheVisitor == [out |-> TheWriter, from |-> from_, count |-> count]
SetVisitor(v) ==
    /\ SetWriter(v.out)
    /\ from_' = v.from
    /\ count' = v.count

\* void vertex(const State &q)
vertex(v, q) == [v EXCEPT !.from = q]

CapReachedGE(c) == c >= EDGE_CAP
\* ++count > 10000, c being the incremented count
CapReached(c) == c > EDGE_CAP

\* void edge(const State &to)
edge(v, to) ==
    IF CapReached(v.count + 1)
      THEN [v EXCEPT !.count = v.count + 1]
      ELSE [v EXCEPT !.count = v.count + 1,
                     !.out = WriterCall(v.out, "edge",
                                        addVisitedEdge(v.from[1], v.from[2], to[1], to[2]))]

\* ---- the planner's side: solution() and visitGraph()
PathPoints == { <<0, 0>>, <<50, 50>> }
Solutions == UNION { [1..n -> PathPoints] : n \in 0..MaxPath }
Canvases == { <<1, 1>>, <<100, 100>> }
\* visitGraph calls vertex(q) and then edge(to) for each edge out of q;
\* the j-th vertex and the target of the n-th edge
VertexAt(j) == <<j % 3, j % 2>>
EdgeTo(n) == <<(2 * n) % 5, n % 3>>
\* the fan-outs of the large graphs: the cap is reached at the end of a
\* vertex's edges, or passed by one within them
LargeFanouts == { EDGE_CAP \div 2, EDGE_CAP + 1 }

\* the graphs a traversal may walk: <<edges, edges out of a vertex>>
Graphs ==
    ((0..SmallGraph) \X (1..MaxPerVertex)) \cup ({MaxEdges} \X LargeFanouts)

\* edge(to) for the edges lo..hi of the traversal, in order: the first half,
\* then the second (the test on count has the first half evaluated before
\* the second is begun)
RECURSIVE CallEdges(_, _, _)
CallEdges(v, lo, hi) ==
    IF lo > hi THEN v
    ELSE IF lo = hi THEN edge(v, EdgeTo(lo))
    ELSE LET mid == (lo + hi) \div 2
             half == CallEdges(v, lo, mid)
         IN IF half.count < 0 THEN half ELSE CallEdges(half, mid + 1, hi)

\* the edges lo..hi out of vertex q as the segments they stand for
EdgesOut(q, lo, hi) ==
    [i \in 1..(hi - lo + 1) |->
        <<"visited", q[1], q[2], EdgeTo(lo + i - 1)[1], EdgeTo(lo + i - 1)[2]>>]

\* what dereferencing the iterator at index i (from 0) gives
Garbage == <<-1, -1>>
PointAt(sol, i) == IF i < Len(sol) THEN sol[i + 1] ELSE Garbage

\* filter has returned, the planner has run
FilterDone ==
    /\ rowBytes = 3 * width
    /\ rows = <<>>
    /\ orig = <<>>
    /\ filters = <<>>
    /\ printFiltered = TRUE
    /\ obstacle = <<>>
    /\ fx = 0
    /\ fy = height
    /\ fpc = "returned"
    /\ oob = FALSE

MainInit ==
    /\ \E c \in Canvases : width = c[1] /\ height = c[2]
    /\ solution \in Solutions
    /\ \E g \in Graphs : graphEdges = g[1] /\ perVertex = g[2]
    /\ FilterDone
    /\ WorkersIdle
    /\ mpc = "solution"
    /\ it = 0
    /\ doc = <<>>
    /\ wstate = "Unopened"
    /\ rejected = FALSE
    /\ lastOp = "none"
    /\ ncalls = 0
    /\ count = 0
    /\ from_ = <<>>
    /\ nVertices = 0
    /\ nDelivered = 0
    /\ delivered = <<>>
    /\ invocation = 1

MainAfterEdgesFirst(pc) ==
    CASE pc = "open" -> "image"
      [] pc = "image" -> "visit"
      [] pc = "visit" -> "path"
      [] pc = "path" -> "footer"
      [] pc = "footer" -> "done"
\* the order of main's statements, lines 154-194
MainAfter(pc) ==
    CASE pc = "open" -> "image"
      [] pc = "image" -> "path"
      [] pc = "path" -> "visit"
      [] pc = "visit" -> "footer"
      [] pc = "footer" -> "done"

\* a call of main on the writer; a refused call ends the run
MainWrite(op, elem, next) ==
    /\ SetWriter(WriterCall(TheWriter, op, elem))
    /\ mpc' = IF Accepts(op, wstate) THEN next ELSE "aborted"

\* lines 144-152: if(solution.empty()) log it, else open the file
MainSolution ==
    /\ mpc = "solution"
    /\ mpc' = IF Len(solution) = 0 THEN "done" ELSE "open"
    /\ UNCHANGED <<solution, it, doc, wstate, rejected, lastOp, ncalls, count,
                   from_, graphEdges, perVertex, nVertices, nDelivered, delivered,
                   invocation>>
    /\ UNCHANGED <<filterVars, workerVars>>

\* line 154
MainStartSvg ==
    /\ mpc = "open"
    /\ MainWrite("open", startSvg(width, height), MainAfter("open"))
    /\ UNCHANGED <<solution, it, count, from_, graphEdges, perVertex, nVertices,
                   nDelivered, delivered, invocation>>
    /\ UNCHANGED <<filterVars, workerVars>>

\* line 155
MainAddImage ==
    /\ mpc = "image"
    /\ MainWrite("background", addImage("inputName"), MainAfter("image"))
    /\ UNCHANGED <<solution, it, count, from_, graphEdges, perVertex, nVertices,
                   nDelivered, delivered, invocation>>
    /\ UNCHANGED <<filterVars, workerVars>>

LoopCondToEnd(i, n) == i # n
\* it + 1 != solution.end()
LoopCond(i, n) == i + 1 # n

\* lines 157-164: one turn of the loop
MainAddSolutionEdge ==
    /\ mpc = "path"
    /\ Len(solution) # 0
    /\ LoopCond(it, Len(solution))
    /\ LET from == PointAt(solution, it)
           to == PointAt(solution, it + 1)
       IN MainWrite("path", addSolutionEdge(from[1], from[2], to[1], to[2]), "path")
    /\ it' = it + 1
    /\ UNCHANGED <<solution, count, from_, graphEdges, perVertex, nVertices,
                   nDelivered, delivered, invocation>>
    /\ UNCHANGED <<filterVars, workerVars>>

\* lines 157-165: the loop is over
MainPathDone ==
    /\ mpc = "path"
    /\ Len(solution) = 0 \/ ~LoopCond(it, Len(solution))
    /\ mpc' = MainAfter("path")
    /\ UNCHANGED <<solution, it, doc, wstate, rejected, lastOp, ncalls, count,
                   from_, graphEdges, perVertex, nVertices, nDelivered, delivered,
                   invocation>>
    /\ UNCHANGED <<filterVars, workerVars>>

\* the traversal reaches its next vertex: vertex(q), then edge(to) for each
\* of the edges out of q
VisitVertex ==
    /\ mpc = "visit"
    /\ nDelivered < graphEdges
    /\ LET q == VertexAt(nVertices)
           lo == nDelivered + 1
           hi == IF nDelivered + perVertex < graphEdges
                   THEN nDelivered + perVertex ELSE graphEdges
       IN /\ SetVisitor(CallEdges(vertex(TheVisitor, q), lo, hi))
          /\ nDelivered' = hi
          /\ delivered' = delivered \o EdgesOut(q, lo, hi)
    /\ nVertices' = nVertices + 1
    /\ UNCHANGED <<mpc, solution, it, graphEdges, perVertex, invocation>>
    /\ UNCHANGED <<filterVars, workerVars>>

\* line 192: visitGraph returns
MainVisitDone ==
    /\ mpc = "visit"
    /\ nDelivered = graphEdges
    /\ mpc' = MainAfter("visit")
    /\ UNCHANGED <<solution, it, doc, wstate, rejected, lastOp, ncalls, count,
                   from_, graphEdges, perVertex, nVertices, nDelivered, delivered,
                   invocation>>
    /\ UNCHANGED <<filterVars, workerVars>>

\* line 194
MainEndSvg ==
    /\ mpc = "footer"
    /\ MainWrite("close", endSvg, MainAfter("footer"))
    /\ UNCHANGED <<solution, it, count, from_, graphEdges, perVertex, nVertices,
                   nDelivered, delivered, invocation>>
    /\ UNCHANGED <<filterVars, workerVars>>

MainNext ==
    \/ MainSolution
    \/ MainStartSvg
    \/ MainAddImage
    \/ MainAddSolutionEdge
    \/ MainPathDone
    \/ VisitVertex
    \/ MainVisitDone
    \/ MainEndSvg

SpecMain == MainInit /\ [][MainNext]_vars

\* ------------------------------------------------------- output: claims
Min(a, b) == IF a < b THEN a ELSE b
Max2(a, b) == IF a > b THEN a ELSE b
Kind(e) == e[1]
\* the place of an element's kind in the document
Rank(e) ==
    CASE Kind(e) = "svg" -> 1
      [] Kind(e) = "image" -> 2
      [] Kind(e) = "solution" -> 3
      [] Kind(e) = "visited" -> 4
      [] Kind(e) = "endsvg" -> 5

\* the document without its footer
Body == IF doc # <<>> /\ Kind(doc[Len(doc)]) = "endsvg" THEN SubSeq(doc, 1, Len(doc) - 1) ELSE doc

\* elements written before the visited edges: header, image, path segments
BeforeEdges == 2 + (Len(solution) - 1)

\* C2: of the n edges delivered to Visitor::edge exactly min(n, 10000) are
\* rendered, they are the first min(n, 10000) delivered, in delivery order,
\* duplicates kept, and the later ones are dropped without an error.
C2_FirstTenThousandInOrder ==
    (mpc \in {"visit", "footer", "done"} /\ Len(solution) >= 1) =>
        /\ ~rejected
        /\ SubSeq(Body, BeforeEdges + 1, Len(Body))
             = SubSeq(delivered, 1, Min(Len(delivered), 10000))

\* 10,050 edges were delivered and the finished document holds 10,000 of
\* them, the last one the 10,000th delivered, the 1st and the 16th alike
C2_Witness ==
    /\ mpc = "done" /\ Len(delivered) = 10050 /\ ~rejected
    /\ Len(doc) = BeforeEdges + 10000 + 1
    /\ doc[BeforeEdges + 10000] = delivered[10000]
    /\ doc[BeforeEdges + 10000] # delivered[10050]
    /\ doc[BeforeEdges + 1] = doc[BeforeEdges + 16]

\* element e may directly follow element d: it is not of an earlier kind,
\* and not another header, image or footer
MayFollow(d, e) ==
    /\ Rank(d) <= Rank(e)
    /\ Rank(d) \in {1, 2, 5} => Rank(d) < Rank(e)

\* writes in their place: the document only grows at its end, its first
\* element is the header, and each new element may follow the one before
WriteInOrder ==
    doc' # doc =>
        /\ Len(doc') > Len(doc)
        /\ SubSeq(doc', 1, Len(doc)) = doc
        /\ Kind(doc'[1]) = "svg"
        /\ \A i \in (Len(doc) + 1)..Len(doc') : i > 1 => MayFollow(doc'[i - 1], doc'[i])

\* every call on the writer is accepted; a finished run with a solution
\* has a header, then the image, and ends with the footer; the footer is
\* written only by the end of the run
WrittenOnce ==
    /\ ~rejected /\ mpc # "aborted"
    /\ mpc = "done" =>
         IF solution = <<>> THEN doc = <<>>
         ELSE /\ Len(doc) >= 3
              /\ Kind(doc[1]) = "svg"
              /\ Kind(doc[2]) = "image"
              /\ Kind(doc[Len(doc)]) = "endsvg"
    /\ (doc # <<>> /\ Kind(doc[Len(doc)]) = "endsvg") => mpc = "done"

\* C3: the header is written first and once, then the background image,
\* then the path segments, then the visited edges, then the footer once;
\* nothing precedes the header and nothing follows the footer.
C3_StrictOrder == []WrittenOnce /\ [][WriteInOrder]_vars

\* a finished document with all five kinds of element
C3_Witness ==
    /\ mpc = "done" /\ Len(doc) = 6
    /\ Kind(doc[3]) = "solution" /\ Kind(doc[4]) = "visited" /\ Kind(doc[5]) = "visited"
    /\ Kind(doc[6]) = "endsvg"

\* C4: a solution of N >= 2 points gives exactly N-1 path segments, the
\* i-th from point i to point i+1 with the coordinates as given; a solution
\* of 0 or 1 points gives no path segment at all.
C4_PathSegments ==
    LET N == Len(solution) IN
      /\ mpc # "aborted"
      \* a path segment is only ever written at one of the places 3..N+1
      /\ (doc # <<>> /\ Kind(doc[Len(doc)]) = "solution") => (N >= 2 /\ Len(doc) \in 3..(N + 1))
      /\ mpc \in {"visit", "footer", "done"} =>
           /\ N >= 2 =>
                SubSeq(doc, 3, N + 1) =
                  [i \in 1..(N - 1) |-> <<"solution", solution[i][1], solution[i][2],
                                          solution[i + 1][1], solution[i + 1][2]>>]
           /\ Len(doc) > Max2(N, 1) + 1 => Kind(doc[Max2(N, 1) + 2]) # "solution"

\* a finished document for a 3-point solution with its 2 segments
C4_Witness ==
    /\ mpc = "done" /\ Len(solution) = 3 /\ solution[1] # solution[2]
    /\ Kind(doc[3]) = "solution" /\ Kind(doc[4]) = "solution" /\ Kind(doc[5]) # "solution"

\* ----------------------------------------- Visitor over several traversals
\* Each traversal gets a Visitor of its own on a freshly opened document;
\* count is a static local of Visitor::edge and so outlives them all.
VisitorInit ==
    /\ width = 100
    /\ height = 100
    /\ FilterDone
    /\ WorkersIdle
    /\ mpc = "visit"
    /\ solution = <<>>
    /\ it = 0
    /\ doc = <<startSvg(100, 100)>>
    /\ wstate = "HeaderWritten"
    /\ rejected = FALSE
    /\ lastOp = "open"
    /\ ncalls = 1
    /\ count = 0
    /\ from_ = <<>>
    /\ \E g \in Graphs : graphEdges = g[1] /\ perVertex = g[2]
    /\ nVertices = 0
    /\ nDelivered = 0
    /\ delivered = <<>>
    /\ invocation = 1

\* Visitor(std::ofstream &out) on a new document, passed to visitGraph
NewVisitor ==
    /\ mpc = "visit"
    /\ nDelivered = graphEdges
    /\ invocation < MaxInvocations
    /\ invocation' = invocation + 1
    /\ doc' = <<startSvg(width, height)>>
    /\ wstate' = "HeaderWritten"
    /\ rejected' = FALSE
    /\ lastOp' = "open"
    /\ ncalls' = 1
    /\ from_' = <<>>
    /\ \E g \in Graphs : graphEdges' = g[1] /\ perVertex' = g[2]
    /\ nVertices' = 0
    /\ nDelivered' = 0
    /\ delivered' = <<>>
    /\ UNCHANGED <<mpc, solution, it, count>>
    /\ UNCHANGED <<filterVars, workerVars>>

VisitorNext == VisitVertex \/ NewVisitor

SpecVisitor == VisitorInit /\ [][VisitorNext]_vars

\* C7: the count behind the cap starts from zero for each traversal: every
\* traversal renders the first min(n, 10000) of the n edges it delivers.
C7_CountsFromZero ==
    mpc = "visit" =>
        SubSeq(doc, 2, Len(doc)) = SubSeq(delivered, 1, Min(Len(delivered), 10000))

\* ------------------------------------------------ the writer, any caller
WriterInit ==
    /\ \E c \in Canvases : width = c[1] /\ height = c[2]
    /\ FilterDone
    /\ WorkersIdle
    /\ mpc = "caller"
    /\ solution = <<>>
    /\ it = 0
    /\ doc = <<>>
    /\ wstate = "Unopened"
    /\ rejected = FALSE
    /\ lastOp = "none"
    /\ ncalls = 0
    /\ count = 0
    /\ from_ = <<>>
    /\ graphEdges = 0
    /\ perVertex = 1
    /\ nVertices = 0
    /\ nDelivered = 0
    /\ delivered = <<>>
    /\ invocation = 0

\* a caller that may call any operation, whatever the writer's state
CallerFrame ==
    /\ UNCHANGED <<mpc, solution, it, count, from_, graphEdges, perVertex, nVertices,
                   nDelivered, delivered, invocation>>
    /\ UNCHANGED <<filterVars, workerVars>>

CallOpen ==
    /\ mpc = "caller" /\ ncalls < MaxCalls
    /\ SetWriter(WriterCall(TheWriter, "open", startSvg(width, height)))
    /\ CallerFrame

CallBackground ==
    /\ mpc = "caller" /\ ncalls < MaxCalls
    /\ SetWriter(WriterCall(TheWriter, "background", addImage("inputName")))
    /\ CallerFrame

CallSolutionEdge ==
    /\ mpc = "caller" /\ ncalls < MaxCalls
    /\ \E p, q \in PathPoints :
         SetWriter(WriterCall(TheWriter, "path", addSolutionEdge(p[1], p[2], q[1], q[2])))
    /\ CallerFrame

CallVisitedEdge ==
    /\ mpc = "caller" /\ ncalls < MaxCalls
    /\ \E p, q \in PathPoints :
         SetWriter(WriterCall(TheWriter, "edge", addVisitedEdge(p[1], p[2], q[1], q[2])))
    /\ CallerFrame

CallClose ==
    /\ mpc = "caller" /\ ncalls < MaxCalls
    /\ SetWriter(WriterCall(TheWriter, "close", endSvg))
    /\ CallerFrame

WriterNext == CallOpen \/ CallBackground \/ CallSolutionEdge \/ CallVisitedEdge \/ CallClose

SpecWriter == WriterInit /\ [][WriterNext]_vars

\* a call out of order, as the state machine of the writer words it
OutOfOrder(op, st) ==
    \/ op \in {"background", "path", "edge"} /\ st = "Unopened"
    \/ op = "open" /\ st # "Unopened"
    \/ st = "Closed"

====
